---- MODULE Spec2Model ----
(***************************************************************************)
(* Model of job_alert.py: the JobAlert pipeline (fetch with fallback over  *)
(* endpoints and payloads, parse, dedup against the seen set, notify,      *)
(* persist) together with the process life cycle (construction, restart).  *)
(***************************************************************************)
EXTENDS Integers, Sequences, FiniteSets

(***************************************************************************)
(* Bounds of the model.                                                    *)
(***************************************************************************)
\* number of distinct interpreter hash seeds (PYTHONHASHSEED is drawn at random per process)
NumSeeds == 2
\* range of the raw string hash (stands for the 64-bit range of hash())
HashSpace == 1009
\* the modulus of the fold "% (10 ** 10)" of get_job_id, scaled down with HashSpace
IdMod == 4
\* longest batch of records a response of the scraping service carries
MaxBatch == 2

(***************************************************************************)
(* Strings are sequences of one-character strings.                         *)
(***************************************************************************)
OrdTable ==
  << <<" ", 32>>, <<".", 46>>, <<"/", 47>>, <<"0", 48>>, <<"1", 49>>, <<"2", 50>>,
     <<"3", 51>>, <<"4", 52>>, <<"5", 53>>, <<"6", 54>>, <<"7", 55>>, <<"8", 56>>,
     <<"9", 57>>, <<":", 58>>, <<"A", 65>>, <<"B", 66>>, <<"D", 68>>, <<"R", 82>>,
     <<"_", 95>>, <<"a", 97>>, <<"b", 98>>, <<"c", 99>>, <<"e", 101>>, <<"f", 102>>,
     <<"h", 104>>, <<"i", 105>>, <<"j", 106>>, <<"l", 108>>, <<"o", 111>>, <<"p", 112>>,
     <<"r", 114>>, <<"s", 115>>, <<"t", 116>>, <<"u", 117>>, <<"v", 118>>, <<"x", 120>> >>

OrdFn == [c \in {OrdTable[k][1] : k \in 1..Len(OrdTable)} |->
            OrdTable[CHOOSE k \in 1..Len(OrdTable) : OrdTable[k][1] = c][2]]

\* ord(c)
Ord(c) == OrdFn[c]

Digits == <<"0", "1", "2", "3", "4", "5", "6", "7", "8", "9">>

RECURSIVE IntToStr(_)
\* str(n) for a non-negative integer: its decimal digits
IntToStr(n) == IF n < 10 THEN <<Digits[n + 1]>>
               ELSE IntToStr(n \div 10) \o <<Digits[(n % 10) + 1]>>

RECURSIVE HashFold(_, _)
HashFold(h, s) == IF s = <<>> THEN h
                  ELSE HashFold((h * 31 + Ord(Head(s))) % HashSpace, Tail(s))

\* hash(s) of a str under the interpreter's hash seed: a keyed hash, fixed
\* within one process, differing between processes; hash("") is 0 under every seed
PyHash(seed, s) == IF s = <<>> THEN 0 ELSE HashFold((seed * 131 + 7) % HashSpace, s)

(***************************************************************************)
(* String helpers used by the parser.                                      *)
(***************************************************************************)
\* s.startswith(p)
StartsWith(s, p) == Len(s) >= Len(p) /\ SubSeq(s, 1, Len(p)) = p

\* re.search of a literal pattern p in s
Contains(s, p) == \E i \in 1..(Len(s) - Len(p) + 1) : SubSeq(s, i, i + Len(p) - 1) = p

RECURSIVE LStrip(_)
LStrip(s) == IF s # <<>> /\ Head(s) = " " THEN LStrip(Tail(s)) ELSE s

RECURSIVE RStrip(_)
RStrip(s) == IF s # <<>> /\ s[Len(s)] = " " THEN RStrip(SubSeq(s, 1, Len(s) - 1)) ELSE s

\* get_text(strip=True) of an element holding one text node
Strip(s) == RStrip(LStrip(s))

(***************************************************************************)
(* String literals of the program and of the modelled inputs.              *)
(***************************************************************************)
\* "https://it.pracuj.pl"
SITE_ORIGIN == <<"h","t","t","p","s",":","/","/","i","t",".","p","r","a","c","u","j",".","p","l">>
PAT_PRACA == <<"/","p","r","a","c","a","/">>
PAT_OFERTA == <<"/","o","f","e","r","t","a","/">>
PAT_JOB == <<"/","j","o","b","/">>
PREFIX_HTTP == <<"h","t","t","p">>
UNKNOWN == <<"U","n","k","n","o","w","n">>
NO_LOCATION == <<"L","o","c","a","t","i","o","n"," ","n","o","t"," ","s","p","e","c","i","f","i","e","d">>

T_REACT == <<"R","e","a","c","t">>
T_DEVOPS == <<"D","e","v","o","p","s">>
T_DEV == <<"D","e","v">>
CO_A == <<"A">>
CO_B == <<"B">>

\* value of a job's 'id' key when the key is absent
NoId == -1

Job(t, c, l) == [title |-> t, company |-> c, location |-> <<>>, link |-> l, id |-> NoId]

LINK_1 == SITE_ORIGIN \o PAT_PRACA \o <<"1">>
LINK_2 == SITE_ORIGIN \o PAT_PRACA \o <<"2">>

\* job objects the extraction service may return
J_LINK1 == Job(T_REACT, CO_A, LINK_1)
J_LINK2 == Job(T_DEVOPS, CO_B, LINK_2)
J_NOLINK == Job(T_DEV, CO_B, <<>>)
JobUniverse == {J_LINK1, J_LINK2, J_NOLINK}

Anchor(t, h, c) == [text |-> t, href |-> h, company |-> c, location |-> <<>>]

\* anchors of the postings container; company/location are the text of the
\* first matching element under the anchor's parent, <<>> when there is none
A_REL == Anchor(<<" ">> \o T_REACT \o <<" ">>, PAT_PRACA \o <<"1">>, CO_A)
A_ABS == Anchor(T_REACT, LINK_2, <<>>)
A_OFERTA == Anchor(T_DEVOPS, PAT_OFERTA \o <<"2">>, CO_B)
A_SHORT == Anchor(T_DEV, PAT_JOB \o <<"3">>, <<>>)
A_BADHREF == Anchor(T_DEVOPS, <<"x">> \o PAT_PRACA \o <<"4">>, <<>>)
A_OTHER == Anchor(T_DEVOPS, <<"/","a","b","o","u","t">>, <<>>)
A_PADDED == Anchor(<<" ", " ">> \o T_DEV \o <<" ">>, PAT_JOB \o <<"5">>, <<>>)
AnchorUniverse == {A_REL, A_ABS, A_OFERTA, A_SHORT, A_BADHREF, A_OTHER, A_PADDED}

SeqsUpTo(S, n) == UNION { [1..k -> S] : k \in 0..n }

\* content handed to parse_jobs_from_html: the empty string, a page without
\* the offers-list element, or a page whose offers-list holds some anchors.
\* fault: index of the anchor of the page at which the body of the loop over
\* job_links raises, 0 when no anchor makes it raise
EmptyContent == [empty |-> TRUE, container |-> FALSE, anchors |-> <<>>, fault |-> 0]
NoContainer == [empty |-> FALSE, container |-> FALSE, anchors |-> <<>>, fault |-> 0]
Page(as) == [empty |-> FALSE, container |-> TRUE, anchors |-> as, fault |-> 0]
FaultyPage(as, k) == [empty |-> FALSE, container |-> TRUE, anchors |-> as, fault |-> k]
HtmlUniverse ==
  {EmptyContent, NoContainer}
  \cup { Page(as) : as \in SeqsUpTo(AnchorUniverse, MaxBatch) }
  \cup UNION { { FaultyPage(as, k) : k \in 1..Len(as) } : as \in SeqsUpTo(AnchorUniverse, MaxBatch) }

(***************************************************************************)
(* parse_jobs_from_html                                                    *)
(***************************************************************************)
\* href=re.compile(r'/praca/|/oferta/|/job/')
MatchesJobHref(href) ==
  Contains(href, PAT_PRACA) \/ Contains(href, PAT_OFERTA) \/ Contains(href, PAT_JOB)

\* the title test without the seen_titles part
SkipTitle_noDuplicateTest(title, seen_titles) == title = <<>> \/ Len(title) < 5

\* "if not title or len(title) < 5 or title in seen_titles: continue"
SkipTitle(title, seen_titles) ==
  title = <<>> \/ Len(title) < 5 \/ title \in seen_titles

\* the href taken as it is
AbsoluteHref_unresolved(href) == href

\* "if href.startswith('/'): href = f"https://it.pracuj.pl{href}""
AbsoluteHref(href) ==
  IF StartsWith(href, <<"/">>) THEN SITE_ORIGIN \o href ELSE href

\* "elif not href.startswith('http'): continue"
SkipHref(href) == ~StartsWith(href, <<"/">>) /\ ~StartsWith(href, PREFIX_HTTP)

RECURSIVE ParseLinks(_, _, _)
\* the loop over job_links, with the accumulated jobs and seen_titles
ParseLinks(links, acc, seen_titles) ==
  IF links = <<>> THEN acc
  ELSE LET link == Head(links)
           title == Strip(link.text)
           href == link.href
           job == [title |-> title,
                   company |-> IF link.company # <<>> THEN Strip(link.company) ELSE UNKNOWN,
                   location |-> IF link.location # <<>> THEN Strip(link.location) ELSE NO_LOCATION,
                   link |-> AbsoluteHref(href),
                   id |-> NoId]
       IN IF SkipTitle(title, seen_titles) \/ SkipHref(href)
          THEN ParseLinks(Tail(links), acc, seen_titles)
          ELSE ParseLinks(Tail(links), Append(acc, job), seen_titles \cup {title})

\* job_links: the anchors of the container whose href matches the pattern
JobLinks(html_content) == SelectSeq(html_content.anchors, LAMBDA a : MatchesJobHref(a.href))

\* the anchors the loop has dealt with when it ends or is left by an exception
LinksDone(html_content) ==
  LET k == html_content.fault
  IN IF k \in 1..Len(html_content.anchors) /\ MatchesJobHref(html_content.anchors[k].href)
     THEN JobLinks([html_content EXCEPT !.anchors = SubSeq(@, 1, k - 1)])   \* those before it
     ELSE JobLinks(html_content)

\* exception raised inside the try block of parse_jobs_from_html
ParseException(html_content) ==
  IF ~html_content.container THEN "AttributeError"   \* offers_list is None: None.find_all
  ELSE IF LinksDone(html_content) # JobLinks(html_content) THEN "Exception"
  ELSE "none"

\* parse_jobs_from_html without its try block
CaughtByParse_none(exc) == FALSE

\* "except Exception as e" of parse_jobs_from_html
CaughtByParse(exc) == exc \in {"AttributeError", "Exception"}

\* parse_jobs_from_html(html_content): whether it raises, and the jobs it returns
ParseOutcome(html_content) ==
  IF html_content.empty THEN [raises |-> FALSE, jobs |-> <<>>]     \* "if not html_content"
  ELSE LET exc == ParseException(html_content)
       IN IF exc # "none" /\ ~CaughtByParse(exc) THEN [raises |-> TRUE, jobs |-> <<>>]
          ELSE IF ~html_content.container THEN [raises |-> FALSE, jobs |-> <<>>]
          ELSE [raises |-> FALSE, jobs |-> ParseLinks(LinksDone(html_content), <<>>, {})]

parse_raises(html_content) == ParseOutcome(html_content).raises

parse_jobs_from_html(html_content) == ParseOutcome(html_content).jobs

(***************************************************************************)
(* get_job_id                                                              *)
(***************************************************************************)
get_job_id(seed, job) ==
  IF job.link # <<>>
  THEN IntToStr(PyHash(seed, job.link) % IdMod)
  ELSE IntToStr(PyHash(seed, job.title \o <<"_">> \o job.company) % IdMod)

Seeds == 0..(NumSeeds - 1)

(***************************************************************************)
(* The state file JOBS_DB_FILE and its (de)serialisation.                  *)
(***************************************************************************)
RECURSIVE SetToList(_)
\* list(a_set): the elements in the set's iteration order
SetToList(S) == IF S = {} THEN <<>>
                ELSE LET x == CHOOSE y \in S : TRUE IN <<x>> \o SetToList(S \ {x})

\* set(a_list)
ListToSet(l) == { l[i] : i \in 1..Len(l) }

FileAbsent == [state |-> "absent", seen_job_ids |-> <<>>]
FileCorrupt == [state |-> "corrupt", seen_job_ids |-> <<>>]
FileWith(l) == [state |-> "ok", seen_job_ids |-> l]

\* exception raised inside the try block of load_seen_jobs
LoadException(file) ==
  IF file.state = "corrupt" THEN "JSONDecodeError" ELSE "none"   \* json.load

\* load_seen_jobs without its try block
CaughtByLoad_none(exc) == FALSE

\* "except Exception as e" of load_seen_jobs
CaughtByLoad(exc) == exc \in {"JSONDecodeError", "OSError", "AttributeError", "TypeError"}

\* whether JobAlert() raises on this file
load_raises(file) ==
  LoadException(file) # "none" /\ ~CaughtByLoad(LoadException(file))

\* load_seen_jobs: the set the constructor ends up with
load_seen_jobs(file) ==
  IF file.state = "ok" THEN ListToSet(file.seen_job_ids)
  ELSE {}   \* file missing, or json.load raised and was caught: the set stays empty

\* result of the environment for one write of the state file
SaveResults == {"ok", "open_failed", "write_failed"}

\* save_seen_jobs: the file after the call; every exception is caught
save_seen_jobs(file, seen, res) ==
  CASE res = "ok" -> FileWith(SetToList(seen))
    [] res = "open_failed" -> file
    [] res = "write_failed" -> FileCorrupt   \* opened with 'w' (truncated), dump not completed

(***************************************************************************)
(* Responses of the scraping service and of the email service.             *)
(***************************************************************************)
extract_endpoints == <<"v2/extract", "v1/extract">>
extract_payloads == <<"url", "urls">>
scrape_endpoints == <<"v2/scrape", "v1/scrape">>
scrape_payloads == <<"selectors", "formats", "pageOptions">>

\* kinds of a response that carry no data
FailureKinds == {"non200", "neterr", "badjson", "notsuccess"}

\* 'jobs' arrays the extraction service may return in the main pipeline
ExtractBatches ==
  { <<>>, <<J_LINK1>>, <<J_LINK1, J_LINK2>>, <<J_NOLINK, J_LINK1>>, <<J_LINK2, J_LINK2>> }

ExtractResponses ==
  { [kind |-> k, jobs |-> <<>>] : k \in FailureKinds \cup {"nondict"} }
  \cup { [kind |-> "ok", jobs |-> b] : b \in ExtractBatches }

\* pages the scrape endpoint may return in the main pipeline
ScrapePages ==
  { EmptyContent, NoContainer, Page(<<A_SHORT>>), Page(<<A_REL, A_ABS>>), Page(<<A_OFERTA, A_REL>>) }

ScrapeResponses ==
  { [kind |-> k, html |-> EmptyContent] : k \in FailureKinds }
  \cup { [kind |-> k, html |-> h] : k \in {"ok", "nondict"}, h \in ScrapePages }

EmailResponses == {"ok", "http_error", "neterr", "badjson"}

(***************************************************************************)
(* The two fallback loops.                                                 *)
(***************************************************************************)
Exhausted == <<0, 0>>

\* the loops nested the other way round: payloads outer, endpoints inner
NextCombo_payloadOuter(e, p, ne, np) ==
  IF e < ne THEN <<e + 1, p>>
  ELSE IF p < np THEN <<1, p + 1>>
  ELSE Exhausted

\* after the last combination the loops start again
NextCombo_startOver(e, p, ne, np) ==
  IF p < np THEN <<e, p + 1>>
  ELSE IF e < ne THEN <<e + 1, 1>>
  ELSE <<1, 1>>

\* for endpoint in endpoints: for payload in payloads: the combination tried
\* after (e, p), Exhausted when both loops are over
NextCombo(e, p, ne, np) ==
  IF p < np THEN <<e, p + 1>>
  ELSE IF e < ne THEN <<e + 1, 1>>
  ELSE Exhausted

\* the 'id' the extract loop gives a job that has none
WithIds(seed, js) ==
  [i \in 1..Len(js) |->
     IF js[i].id = NoId
     THEN [js[i] EXCEPT !.id =
             PyHash(seed, js[i].title \o <<"_">> \o js[i].company \o <<"_">> \o js[i].link) % IdMod]
     ELSE js[i]]

\* exception raised while a request to a service is posted and its body is read
ResponseException(kind) ==
  CASE kind = "neterr" -> "ConnectionError"      \* or Timeout
    [] kind = "badjson" -> "JSONDecodeError"     \* response.json()
    [] kind = "http_error" -> "HTTPError"        \* raise_for_status()
    [] OTHER -> "none"

\* an except clause that catches HTTP errors only
IsRequestException_httpOnly(exc) == exc = "HTTPError"

\* "except requests.exceptions.RequestException"
IsRequestException(exc) == exc \in {"ConnectionError", "HTTPError", "JSONDecodeError"}

Continue == [act |-> "continue", jobs |-> <<>>, exc |-> "none"]
Raise(exc) == [act |-> "raise", jobs |-> <<>>, exc |-> exc]
Return(js) == [act |-> "return", jobs |-> js, exc |-> "none"]

\* one iteration of the loop of scrape_jobs_with_firecrawl_extract on a
\* response: continue with the next combination, return jobs, or raise
extract_iteration(seed, resp) ==
  LET exc == ResponseException(resp.kind) IN
  IF exc # "none" THEN (IF IsRequestException(exc) THEN Continue ELSE Raise(exc))
  ELSE CASE resp.kind = "non200" -> Continue       \* status_code != 200
         [] resp.kind = "nondict" -> Continue      \* not a dict: nothing to do
         [] resp.kind = "notsuccess" -> Continue   \* success is false
         [] resp.kind = "ok" ->
              LET js == WithIds(seed, resp.jobs)
              IN IF js # <<>> THEN Return(js) ELSE Continue

\* one iteration of the loop of scrape_jobs_with_firecrawl
scrape_iteration(resp) ==
  LET exc == ResponseException(resp.kind) IN
  IF exc # "none" THEN (IF IsRequestException(exc) THEN Continue ELSE Raise(exc))
  ELSE CASE resp.kind = "non200" -> Continue
         [] resp.kind = "notsuccess" -> Continue
         [] resp.kind \in {"ok", "nondict"} ->   \* html/markdown/content of the dict, or str(data)
              IF resp.html.empty THEN Continue
              ELSE IF parse_raises(resp.html) THEN Raise(ParseException(resp.html))
              ELSE LET js == parse_jobs_from_html(resp.html)
                   IN IF js # <<>> THEN Return(js) ELSE Continue

(***************************************************************************)
(* send_email and the decisions of check_for_new_jobs.                     *)
(***************************************************************************)
\* send_email without its except clause
send_email_uncaught(key, js, resp) ==
  IF ~key THEN [raises |-> TRUE, posts |-> 0]
  ELSE IF js = <<>> THEN [raises |-> FALSE, posts |-> 0]
  ELSE [raises |-> ResponseException(resp) # "none", posts |-> 1]

\* send_email(jobs) under a configuration and a response of the email API:
\* whether it raises, and how many requests it posts
send_email(key, js, resp) ==
  IF ~key THEN [raises |-> TRUE, posts |-> 0]          \* ValueError
  ELSE IF js = <<>> THEN [raises |-> FALSE, posts |-> 0]
  ELSE LET exc == ResponseException(resp)
       IN [raises |-> exc # "none" /\ ~IsRequestException(exc), posts |-> 1]

\* an except clause of check_for_new_jobs that catches request errors only
CaughtByCheck_requestOnly(exc) == IsRequestException(exc)

\* "except Exception as e" of check_for_new_jobs: every exception the
\* pipeline raises derives from Exception
CaughtByCheck(exc) ==
  exc \in {"ValueError", "AttributeError", "ConnectionError", "HTTPError", "JSONDecodeError"}

\* the fallback taken whatever the extract mode returned
FallBack_always(js) == TRUE

\* "if not jobs: jobs = self.scrape_jobs_with_firecrawl()"
FallBack(js) == js = <<>>

\* "if job_id not in self.seen_job_ids"
IsNew(job_id, seen) == job_id \notin seen

\* the identifier is not added while the loop runs
AddSeen_deferred(seen, job_id) == seen

\* the identifier replaces the set
AddSeen_replace(seen, job_id) == {job_id}

\* "self.seen_job_ids.add(job_id)"
AddSeen(seen, job_id) == seen \cup {job_id}

\* the notification branch taken whether or not there are new jobs
HasNewJobs_always(new) == TRUE

\* "if new_jobs:"
HasNewJobs(new) == new # <<>>

(***************************************************************************)
(* State.                                                                  *)
(***************************************************************************)
VARIABLES
  FIRECRAWL_API_KEY,   \* TRUE when the key is set in the environment
  RESEND_API_KEY,      \* TRUE when the key is set in the environment
  hashseed,            \* hash seed of the running interpreter
  seen_job_ids,        \* self.seen_job_ids
  jobs_db,             \* content of JOBS_DB_FILE
  pc,                  \* position of the process
  e, p,                \* indexes of the endpoint and payload being tried
  html_content,        \* argument of the call of parse_jobs_from_html that is examined on its
                       \* own; the pipeline hands the page to the parser without keeping it
  jobs, new_jobs, di,  \* locals of check_for_new_jobs; di: next job of the dedup loop
  job_id,              \* last value returned by get_job_id, <<>> before the first
  calls,               \* history: requests posted to the scraping API since the cycle started
                       \* (emptied when the fetched jobs are taken up by the dedup loop)
  last_kind,           \* history: kind of the last response of the scraping API
  seen_at_start,       \* history: seen_job_ids when the cycle started
  send_calls,          \* history: invocations of send_email in this cycle
  post_count,          \* history: requests posted to the email API in this cycle
  send_result,         \* history: response to that request
  save_calls,          \* history: invocations of save_seen_jobs in this cycle
  outcome,             \* history: how the last cycle ended
  proc_floor,          \* history: ids this process loaded or wrote to the file
  run,                 \* history: which run of the dedup loop over one batch this is (0: not tracked)
  first_ids,           \* history: the identifiers computed by the first run over the batch
  stages               \* history: the stages of check_for_new_jobs entered in this cycle, in order

vars == <<FIRECRAWL_API_KEY, RESEND_API_KEY, hashseed, seen_job_ids, jobs_db, pc, e, p, html_content,
          jobs, new_jobs, di, job_id, calls, last_kind, seen_at_start, send_calls,
          post_count, send_result, save_calls, outcome, proc_floor, run, first_ids, stages>>

config == <<FIRECRAWL_API_KEY, RESEND_API_KEY, hashseed>>
locals == <<e, p, jobs, new_jobs, di>>
history == <<run, first_ids>>

NoResult == "none"

InitialFiles == {FileAbsent, FileWith(<<IntToStr(0)>>)}

Init ==
  /\ FIRECRAWL_API_KEY \in BOOLEAN
  /\ RESEND_API_KEY \in BOOLEAN
  /\ hashseed \in Seeds
  /\ jobs_db \in InitialFiles
  /\ seen_job_ids = load_seen_jobs(jobs_db)
  /\ pc = "idle"
  /\ e = 0 /\ p = 0
  /\ html_content = EmptyContent
  /\ jobs = <<>> /\ new_jobs = <<>> /\ di = 0
  /\ job_id = <<>>
  /\ calls = <<>>
  /\ last_kind = NoResult
  /\ seen_at_start = seen_job_ids
  /\ send_calls = 0 /\ post_count = 0 /\ save_calls = 0
  /\ send_result = NoResult
  /\ outcome = "booted"
  /\ proc_floor = seen_job_ids
  /\ run = 0
  /\ first_ids = <<>>
  /\ stages = <<>>

(***************************************************************************)
(* Actions.                                                                *)
(***************************************************************************)
\* check_for_new_jobs is left, the process going on at 'at': the locals go away
Leave(at, result) ==
  /\ pc' = at
  /\ e' = 0 /\ p' = 0
  /\ jobs' = <<>> /\ new_jobs' = <<>> /\ di' = 0
  /\ job_id' = <<>>
  /\ calls' = <<>>
  /\ last_kind' = NoResult
  /\ seen_at_start' = seen_job_ids'
  /\ outcome' = result

\* check_for_new_jobs returns (normally, or after its except clause caught an
\* error) to the loop of run()
EndCycle(result) == Leave("idle", result)

\* an exception raised inside the try block of check_for_new_jobs: caught and
\* printed, or propagated through run() out of the process
Raised(exc) ==
  IF CaughtByCheck(exc) THEN EndCycle("error") ELSE Leave("crashed", "crashed")

\* the stage is entered: it is put on the record of the cycle, once
Entered(stage) ==
  stages' = IF \E i \in 1..Len(stages) : stages[i] = stage THEN stages ELSE Append(stages, stage)

\* the process is stopped between two cycles and started again: a new
\* interpreter, the environment read again, JobAlert() constructed
Restart ==
  /\ pc = "idle"
  /\ FIRECRAWL_API_KEY' \in BOOLEAN
  /\ RESEND_API_KEY' \in BOOLEAN
  /\ hashseed' \in Seeds
  /\ seen_job_ids' = load_seen_jobs(jobs_db)
  /\ proc_floor' = seen_job_ids'
  /\ seen_at_start' = seen_job_ids'
  /\ IF load_raises(jobs_db)
     THEN pc' = "crashed" /\ outcome' = "load_failed"
     ELSE pc' = "idle" /\ outcome' = "booted"
  /\ send_calls' = 0 /\ post_count' = 0 /\ save_calls' = 0
  /\ send_result' = NoResult
  /\ stages' = <<>>
  /\ UNCHANGED <<jobs_db, html_content, locals, job_id, calls, last_kind, run, first_ids>>

\* check_for_new_jobs is entered and calls scrape_jobs_with_firecrawl_extract
CheckStart ==
  /\ pc = "idle"
  /\ send_calls' = 0 /\ post_count' = 0 /\ save_calls' = 0
  /\ send_result' = NoResult
  /\ stages' = <<"extract">>
  /\ UNCHANGED <<config, html_content, seen_job_ids, jobs_db, proc_floor, history>>
  /\ IF ~FIRECRAWL_API_KEY
     THEN Raised("ValueError")    \* FIRECRAWL_API_KEY not set
     ELSE /\ pc' = "extract"
          /\ e' = 1 /\ p' = 1
          /\ outcome' = "running"
          /\ seen_at_start' = seen_job_ids
          /\ UNCHANGED <<jobs, new_jobs, di, job_id, calls, last_kind>>

\* history record of one request: the combination tried, whether the response
\* was an HTTP 200 carrying at least one record, and those records
Call(mode, endpoint, payload, records) ==
  [mode |-> mode, endpoint |-> endpoint, payload |-> payload, usable |-> records # <<>>,
   records |-> records]

Logged(call, kind) ==
  /\ calls' = Append(calls, call)
  /\ last_kind' = kind

\* one request of the extract loop and the handling of its response
ExtractAttempt ==
  /\ pc = "extract"
  /\ \E resp \in ExtractResponses :
       LET r == extract_iteration(hashseed, resp)
           nxt == NextCombo(e, p, Len(extract_endpoints), Len(extract_payloads))
           call == Call("extract", extract_endpoints[e], extract_payloads[p],
                        IF resp.kind = "ok" THEN resp.jobs ELSE <<>>)
       IN /\ UNCHANGED <<config, html_content, seen_job_ids, jobs_db, proc_floor, history, send_calls,
                         post_count, send_result, save_calls>>
          /\ CASE r.act = "raise" ->
                    Raised(r.exc) /\ UNCHANGED stages
               [] r.act = "continue" /\ nxt # Exhausted ->
                    /\ Logged(call, resp.kind)
                    /\ e' = nxt[1] /\ p' = nxt[2]
                    /\ UNCHANGED <<pc, jobs, new_jobs, di, job_id, seen_at_start, outcome, stages>>
               [] OTHER ->   \* the jobs of the response are returned, or [] after
                             \* the last combination
                    /\ Logged(call, resp.kind)
                    /\ jobs' = r.jobs
                    /\ IF FallBack(r.jobs)
                       THEN \* scrape_jobs_with_firecrawl is called; its key check passes
                            pc' = "scrape" /\ e' = 1 /\ p' = 1 /\ Entered("scrape")
                       ELSE pc' = "fetched" /\ UNCHANGED <<e, p, stages>>
                    /\ UNCHANGED <<new_jobs, di, job_id, seen_at_start, outcome>>

\* one request of the scrape loop and the handling of its response
ScrapeAttempt ==
  /\ pc = "scrape"
  /\ \E resp \in ScrapeResponses :
       LET r == scrape_iteration(resp)
           nxt == NextCombo(e, p, Len(scrape_endpoints), Len(scrape_payloads))
           call == Call("scrape", scrape_endpoints[e], scrape_payloads[p],
                        IF resp.kind \in {"ok", "nondict"}
                        THEN parse_jobs_from_html(resp.html) ELSE <<>>)
       IN /\ UNCHANGED <<config, html_content, seen_job_ids, jobs_db, proc_floor, history, send_calls,
                         post_count, send_result, save_calls>>
          /\ IF resp.kind \in {"ok", "nondict"} /\ ~resp.html.empty   \* "if html_content:"
             THEN Entered("parse")
             ELSE UNCHANGED stages
          /\ CASE r.act = "raise" ->
                    Raised(r.exc)
               [] r.act = "continue" /\ nxt # Exhausted ->
                    /\ Logged(call, resp.kind)
                    /\ e' = nxt[1] /\ p' = nxt[2]
                    /\ UNCHANGED <<pc, jobs, new_jobs, di, job_id, seen_at_start, outcome>>
               [] OTHER ->   \* the jobs of the response are returned, or [] after
                             \* the last combination
                    /\ Logged(call, resp.kind)
                    /\ jobs' = r.jobs /\ pc' = "fetched"
                    /\ UNCHANGED <<e, p, new_jobs, di, job_id, seen_at_start, outcome>>

\* "if not jobs: print(...); return"
NoJobsFound ==
  /\ pc = "fetched"
  /\ jobs = <<>>
  /\ UNCHANGED <<config, html_content, stages, seen_job_ids, jobs_db, proc_floor, history, send_calls,
                 post_count, send_result, save_calls>>
  /\ EndCycle("nojobs")

\* jobs is not empty: "new_jobs = []" and the dedup loop is entered
BeginDedup ==
  /\ pc = "fetched"
  /\ jobs # <<>>
  /\ pc' = "dedup"
  /\ new_jobs' = <<>> /\ di' = 1
  /\ calls' = <<>>
  /\ last_kind' = NoResult
  /\ Entered("dedup")
  /\ UNCHANGED <<config, html_content, seen_job_ids, jobs_db, e, p, jobs, job_id, seen_at_start, send_calls,
                 post_count, send_result, save_calls, outcome, proc_floor, history>>

\* one iteration of the loop "for job in jobs" of check_for_new_jobs
DedupStep ==
  /\ pc = "dedup"
  /\ di <= Len(jobs)
  /\ LET id == get_job_id(hashseed, jobs[di])
     IN /\ job_id' = id
        /\ first_ids' = IF run = 1 THEN Append(first_ids, id) ELSE first_ids
        /\ IF IsNew(id, seen_job_ids)
           THEN /\ new_jobs' = Append(new_jobs, jobs[di])
                /\ seen_job_ids' = AddSeen(seen_job_ids, id)
           ELSE UNCHANGED <<new_jobs, seen_job_ids>>
  /\ di' = di + 1
  /\ UNCHANGED <<config, html_content, stages, jobs_db, pc, e, p, jobs, calls, last_kind, seen_at_start, send_calls,
                 post_count, send_result, save_calls, outcome, proc_floor, run>>

\* the loop is over and new_jobs is empty: "No new jobs found"
NoNewJobs ==
  /\ pc = "dedup"
  /\ di > Len(jobs)
  /\ ~HasNewJobs(new_jobs)
  /\ UNCHANGED <<config, html_content, stages, seen_job_ids, jobs_db, proc_floor, history, send_calls,
                 post_count, send_result, save_calls>>
  /\ EndCycle("nonew")

\* the loop is over and new_jobs is not empty: self.send_email(new_jobs)
SendEmail ==
  /\ pc = "dedup"
  /\ di > Len(jobs)
  /\ HasNewJobs(new_jobs)
  /\ \E resp \in EmailResponses :
       LET r == send_email(RESEND_API_KEY, new_jobs, resp)
       IN /\ send_calls' = send_calls + 1
          /\ post_count' = post_count + r.posts
          /\ send_result' = IF r.posts > 0 THEN resp ELSE NoResult
          /\ Entered("notify")
          /\ UNCHANGED <<config, html_content, seen_job_ids, jobs_db, proc_floor, history, save_calls>>
          /\ IF r.raises
             THEN Raised(IF RESEND_API_KEY THEN ResponseException(resp) ELSE "ValueError")
             ELSE /\ pc' = "save"
                  /\ UNCHANGED <<e, p, jobs, new_jobs, di, job_id, calls, last_kind,
                                 seen_at_start, outcome>>

\* self.save_seen_jobs(), then check_for_new_jobs returns
SaveSeenJobs ==
  /\ pc = "save"
  /\ \E res \in SaveResults :
       /\ jobs_db' = save_seen_jobs(jobs_db, seen_job_ids, res)
       /\ proc_floor' = IF res = "ok" THEN proc_floor \cup seen_job_ids ELSE proc_floor
  /\ save_calls' = save_calls + 1
  /\ Entered("persist")
  /\ UNCHANGED <<config, html_content, seen_job_ids, history, send_calls, post_count, send_result>>
  /\ EndCycle("notified")

Next ==
  \/ Restart
  \/ CheckStart
  \/ ExtractAttempt
  \/ ScrapeAttempt
  \/ NoJobsFound
  \/ BeginDedup
  \/ DedupStep
  \/ NoNewJobs
  \/ SendEmail
  \/ SaveSeenJobs

Spec == Init /\ [][Next]_vars

\* the steps of check_for_new_jobs once it has been entered
CycleStep ==
  \/ ExtractAttempt
  \/ ScrapeAttempt
  \/ NoJobsFound
  \/ BeginDedup
  \/ DedupStep
  \/ NoNewJobs
  \/ SendEmail
  \/ SaveSeenJobs

\* one process from its start on: cycle after cycle, without a restart
NextProcess == CheckStart \/ CycleStep

\* the interpreter goes on executing a cycle it has entered: every request
\* is posted with a timeout (30 or 60 seconds), so each attempt gets an answer
\* or an exception; when the next cycle starts is left open
FairSpec == Init /\ [][NextProcess]_vars /\ WF_vars(CycleStep)

(***************************************************************************)
(* The dedup loop run twice over one batch: a first run, the seen set      *)
(* saved, then a second run over the same batch, in the same process or    *)
(* in a process started afterwards.                                        *)
(***************************************************************************)
RECURSIVE SeqToSet(_)
SeqToSet(q) == IF q = <<>> THEN {} ELSE {Head(q)} \cup SeqToSet(Tail(q))

\* records that reach the dedup loop: from the extraction service or the parser
DedupRecords ==
  JobUniverse \cup UNION { SeqToSet(parse_jobs_from_html(h)) : h \in ScrapePages }

IdStrings == { IntToStr(i) : i \in 0..(IdMod - 1) }

InitDedup ==
  /\ FIRECRAWL_API_KEY = TRUE
  /\ RESEND_API_KEY = TRUE
  /\ hashseed \in Seeds
  /\ seen_job_ids \in SUBSET IdStrings
  /\ jobs_db = FileWith(SetToList(seen_job_ids))
  /\ pc = "dedup"
  /\ e = 0 /\ p = 0
  /\ html_content = EmptyContent
  /\ jobs \in SeqsUpTo(DedupRecords, MaxBatch) \ {<<>>}
  /\ new_jobs = <<>> /\ di = 1
  /\ job_id = <<>>
  /\ calls = <<>>
  /\ last_kind = NoResult
  /\ seen_at_start = seen_job_ids
  /\ send_calls = 0 /\ post_count = 0 /\ save_calls = 0
  /\ send_result = NoResult
  /\ outcome = "running"
  /\ proc_floor = seen_job_ids
  /\ run = 1
  /\ first_ids = <<>>
  /\ stages = <<"extract", "dedup">>

\* after the first run: save_seen_jobs succeeds, the cycle ends, and the next
\* cycle (of this process, or of a process started afterwards, which loads the
\* file under its own hash seed) fetches the same batch
RunAgain ==
  /\ pc = "dedup"
  /\ di > Len(jobs)
  /\ run = 1
  /\ jobs_db' = save_seen_jobs(jobs_db, seen_job_ids, "ok")
  /\ \E restarted \in BOOLEAN :
       IF restarted
       THEN /\ hashseed' \in Seeds
            /\ seen_job_ids' = load_seen_jobs(jobs_db')
       ELSE UNCHANGED <<hashseed, seen_job_ids>>
  /\ seen_at_start' = seen_job_ids'
  /\ proc_floor' = seen_job_ids'
  /\ run' = 2
  /\ di' = 1 /\ new_jobs' = <<>> /\ job_id' = <<>>
  /\ UNCHANGED <<FIRECRAWL_API_KEY, RESEND_API_KEY, pc, e, p, html_content, jobs, calls, last_kind,
                 send_calls, post_count, send_result, save_calls, outcome, first_ids, stages>>

NextDedup == DedupStep \/ RunAgain

SpecDedup == InitDedup /\ [][NextDedup]_vars

(***************************************************************************)
(* send_email called on its own, with any list and any configuration.      *)
(***************************************************************************)
InitSendEmail ==
  /\ FIRECRAWL_API_KEY = TRUE
  /\ RESEND_API_KEY \in BOOLEAN
  /\ hashseed = 0
  /\ seen_job_ids = {}
  /\ jobs_db = FileAbsent
  /\ pc = "send_call"
  /\ e = 0 /\ p = 0
  /\ html_content = EmptyContent
  /\ jobs = <<>> /\ di = 0
  /\ new_jobs \in SeqsUpTo(DedupRecords, MaxBatch)
  /\ job_id = <<>>
  /\ calls = <<>>
  /\ last_kind = NoResult
  /\ seen_at_start = {}
  /\ send_calls = 0 /\ post_count = 0 /\ save_calls = 0
  /\ send_result = NoResult
  /\ outcome = "running"
  /\ proc_floor = {}
  /\ run = 0
  /\ first_ids = <<>>
  /\ stages = <<>>

CallSendEmail ==
  /\ pc = "send_call"
  /\ \E resp \in EmailResponses :
       LET r == send_email(RESEND_API_KEY, new_jobs, resp)
       IN /\ send_calls' = send_calls + 1
          /\ post_count' = post_count + r.posts
          /\ send_result' = IF r.posts > 0 THEN resp ELSE NoResult
          /\ outcome' = IF r.raises THEN "error" ELSE "returned"
  /\ pc' = "send_done"
  /\ UNCHANGED <<config, html_content, stages, seen_job_ids, jobs_db, locals, job_id, calls, last_kind,
                 seen_at_start, save_calls, proc_floor, history>>

NextSendEmail == CallSendEmail

SpecSendEmail == InitSendEmail /\ [][NextSendEmail]_vars

(***************************************************************************)
(* parse_jobs_from_html called on its own, with any content.               *)
(***************************************************************************)
InitParse ==
  /\ FIRECRAWL_API_KEY = TRUE
  /\ RESEND_API_KEY = TRUE
  /\ hashseed = 0
  /\ seen_job_ids = {}
  /\ jobs_db = FileAbsent
  /\ pc = "parse_call"
  /\ e = 0 /\ p = 0
  /\ html_content \in HtmlUniverse
  /\ jobs = <<>> /\ new_jobs = <<>> /\ di = 0
  /\ job_id = <<>>
  /\ calls = <<>>
  /\ last_kind = NoResult
  /\ seen_at_start = {}
  /\ send_calls = 0 /\ post_count = 0 /\ save_calls = 0
  /\ send_result = NoResult
  /\ outcome = "running"
  /\ proc_floor = {}
  /\ run = 0
  /\ first_ids = <<>>
  /\ stages = <<>>

\* jobs = self.parse_jobs_from_html(html_content)
CallParse ==
  /\ pc = "parse_call"
  /\ LET r == ParseOutcome(html_content)
     IN /\ jobs' = r.jobs
        /\ outcome' = IF r.raises THEN "error" ELSE "returned"
  /\ pc' = "parse_done"
  /\ UNCHANGED <<config, html_content, stages, seen_job_ids, jobs_db, e, p, new_jobs, di, job_id, calls,
                 last_kind, seen_at_start, send_calls, post_count, send_result, save_calls,
                 proc_floor, history>>

NextParse == CallParse

SpecParse == InitParse /\ [][NextParse]_vars

(***************************************************************************)
(* Properties.                                                             *)
(***************************************************************************)
\* the order in which a cycle may post its requests to the scraping API
CanonicalCalls ==
  << <<"extract", "v2/extract", "url">>, <<"extract", "v2/extract", "urls">>,
     <<"extract", "v1/extract", "url">>, <<"extract", "v1/extract", "urls">>,
     <<"scrape", "v2/scrape", "selectors">>, <<"scrape", "v2/scrape", "formats">>,
     <<"scrape", "v2/scrape", "pageOptions">>,
     <<"scrape", "v1/scrape", "selectors">>, <<"scrape", "v1/scrape", "formats">>,
     <<"scrape", "v1/scrape", "pageOptions">> >>

CallKey(c) == <<c.mode, c.endpoint, c.payload>>

\* the records of a batch without the 'id' the extract loop adds
BatchKey(js) == [i \in 1..Len(js) |-> [js[i] EXCEPT !.id = NoId]]

\* C1: within each mode the combinations are tried endpoint-outer,
\* payload-inner (extract mode before scrape mode); a response with usable
\* data is always the last request of the cycle, its records are the records
\* the fetch returns, and no request is posted once the fetch has returned.
C1_FirstSuccessWins ==
  /\ Len(calls) <= Len(CanonicalCalls)
  /\ \A k \in 1..Len(calls) : CallKey(calls[k]) = CanonicalCalls[k]
  /\ \A k \in 1..(Len(calls) - 1) : ~calls[k].usable
  /\ pc \in {"extract", "scrape"} =>
       /\ \A k \in 1..Len(calls) : ~calls[k].usable
       /\ jobs = <<>>
  /\ pc = "fetched" =>
       /\ calls # <<>>
       /\ BatchKey(jobs) = calls[Len(calls)].records
       /\ jobs = <<>> => Len(calls) = Len(CanonicalCalls)
  /\ pc \in {"dedup", "save", "idle"} => calls = <<>>

\* the primary extract endpoint failed with both payloads, the secondary
\* endpoint answered with jobs, and the cycle went on to dedup with them
C1_Witness ==
  /\ pc = "fetched"
  /\ Len(calls) = 3
  /\ calls[3].endpoint = "v1/extract"
  /\ calls[3].usable
  /\ Len(jobs) = 2

TransportFailures == {"non200", "neterr", "badjson"}

\* the combination the loops are about to try
Position ==
  IF pc = "extract" THEN <<"extract", extract_endpoints[e], extract_payloads[p]>>
  ELSE <<"scrape", scrape_endpoints[e], scrape_payloads[p]>>

\* C2: after a non-200 response, a network error or a malformed body the
\* fetch has not raised: it stands at the next combination, or, when that was
\* the last combination of the last mode, it has returned an empty list; a
\* cycle that ended in an error did so for a missing key, not for a response.
C2_FailuresFallThrough ==
  /\ last_kind \in TransportFailures =>
       /\ pc \in {"extract", "scrape", "fetched"}
       /\ pc \in {"extract", "scrape"} =>
            /\ Len(calls) < Len(CanonicalCalls)
            /\ Position = CanonicalCalls[Len(calls) + 1]
       /\ pc = "fetched" => (Len(calls) = Len(CanonicalCalls) /\ jobs = <<>>)
  /\ (pc = "idle" /\ outcome = "error") => (~FIRECRAWL_API_KEY \/ send_calls = 1)

\* every combination of both modes failed, the last one with a malformed body
C2_Witness ==
  /\ pc = "fetched"
  /\ Len(calls) = Len(CanonicalCalls)
  /\ last_kind = "badjson"
  /\ jobs = <<>>

\* identifiers of the first n jobs of the batch
IdOf(i) == get_job_id(hashseed, jobs[i])

\* indexes among the first n jobs that hold the first occurrence of an
\* identifier that was not in the seen set when the loop started
FirstNewIdx(n) ==
  { i \in 1..n : IdOf(i) \notin seen_at_start /\ \A k \in 1..(i - 1) : IdOf(k) # IdOf(i) }

\* C3: at every point of the dedup loop, new_jobs holds, in order, exactly the
\* examined records that are the first occurrence of an identifier absent
\* from the initial seen set, and the seen set is the initial set united with
\* the identifiers of the examined records.
C3_DedupFirstOccurrences ==
  pc = "dedup" =>
    LET n == di - 1
        idx == FirstNewIdx(n)
    IN /\ Len(new_jobs) = Cardinality(idx)
       /\ \A i \in idx : new_jobs[Cardinality({k \in idx : k <= i})] = jobs[i]
       /\ seen_job_ids = seen_at_start \cup { IdOf(i) : i \in 1..n }

\* the loop is over a batch of two: the first identifier was already seen,
\* the second was not; one record is new and the seen set grew by one
C3_Witness ==
  /\ pc = "dedup"
  /\ Len(jobs) = 2 /\ di = 3
  /\ IdOf(1) \in seen_at_start
  /\ IdOf(2) \notin seen_at_start
  /\ new_jobs = <<jobs[2]>>
  /\ seen_job_ids = seen_at_start \cup {IdOf(2)}
  /\ seen_job_ids # seen_at_start

\* C4: the identifier get_job_id computes for a record is the same in every
\* run: in the second run over a batch, possibly in another process, each
\* record gets the identifier it got in the first run.
C4_StableIdentifier ==
  (run = 2 /\ di > 1) => job_id = first_ids[di - 1]

\* C5: the second run of the dedup loop over the same batch, after the seen
\* set of the first run was saved, reports no new record.
C5_SecondRunEmpty ==
  (run = 2 /\ pc = "dedup" /\ di > Len(jobs)) => new_jobs = <<>>

\* C6: send_email is invoked only with a non-empty new_jobs; a cycle that
\* fetched nothing, or only records already seen, invokes it zero times and
\* posts nothing to the email API.
C6_NotifyOnlyWhenNew ==
  /\ (pc # "idle" /\ send_calls > 0) => new_jobs # <<>>
  /\ outcome \in {"nojobs", "nonew"} => (send_calls = 0 /\ post_count = 0)

\* a cycle whose fetched records were all seen already ended without a send
C6_Witness ==
  /\ pc = "idle"
  /\ outcome = "nonew"
  /\ send_calls = 0
  /\ seen_job_ids # {}

\* C7: send_email called with an empty list returns normally and posts
\* nothing, whatever the configuration.
C7_EmptyListNoOp ==
  (pc = "send_done" /\ new_jobs = <<>>) => (outcome = "returned" /\ post_count = 0)

\* C8: the state file is written (save_seen_jobs invoked) only by the save
\* step of a cycle whose new_jobs is non-empty, and only once in that cycle.
C8_WriteOnlyWithNew ==
  [][ (jobs_db' # jobs_db \/ save_calls' > save_calls) =>
        (pc = "save" /\ new_jobs # <<>> /\ save_calls = 0 /\ save_calls' = 1) ]_vars

\* a cycle with new records ended after writing the seen set to the file
C8_Witness ==
  /\ pc = "idle"
  /\ outcome = "notified"
  /\ save_calls = 1
  /\ jobs_db.state = "ok"
  /\ load_seen_jobs(jobs_db) = seen_job_ids
  /\ seen_job_ids # {}

\* C9: the identifiers of the new records are in the seen set when the email
\* request is posted; the request is posted at most once per cycle; whatever
\* the response, send_email returns and save_seen_jobs is invoked after it.
C9_FailedSendStillPersists ==
  /\ post_count <= 1
  /\ pc \in {"dedup", "save"} =>
       \A i \in 1..Len(new_jobs) : get_job_id(hashseed, new_jobs[i]) \in seen_job_ids
  /\ pc = "dedup" => post_count = 0
  /\ pc = "save" => (post_count = 1 /\ send_result # NoResult)
  /\ post_count = 1 =>
       \/ pc = "save"
       \/ pc = "idle" /\ outcome = "notified" /\ save_calls = 1

\* the email API answered with an error status, and the cycle still ended
\* with the seen set written to the file
C9_Witness ==
  /\ pc = "idle"
  /\ send_result = "http_error"
  /\ post_count = 1
  /\ save_calls = 1
  /\ jobs_db.state = "ok"
  /\ load_seen_jobs(jobs_db) = seen_job_ids

\* C10: within a process no step removes an identifier from the in-memory
\* seen set, and every set written to the state file contains what the
\* process loaded at start and what it wrote before.
C10_SeenMonotone ==
  [][ outcome' # "booted" =>
        /\ seen_job_ids \subseteq seen_job_ids'
        /\ seen_at_start' \subseteq seen_job_ids'
        /\ (jobs_db' # jobs_db /\ jobs_db'.state = "ok") =>
             proc_floor \subseteq ListToSet(jobs_db'.seen_job_ids) ]_vars

\* the seen set has grown to several identifiers over the cycles of a
\* process, and the file the process wrote holds all of them
C10_Witness ==
  /\ pc = "idle"
  /\ outcome = "notified"
  /\ Cardinality(seen_job_ids) >= 3
  /\ proc_floor = seen_job_ids
  /\ jobs_db.state = "ok"
  /\ ListToSet(jobs_db.seen_job_ids) = seen_job_ids

\* C11: no error of a cycle leaves check_for_new_jobs: the process is never
\* stopped by one, and a cycle that ended in an error has returned to the
\* loop of run(), where the next cycle can start.
C11_ErrorsContained ==
  /\ pc # "crashed"
  /\ outcome = "error" => pc = "idle"
  /\ pc = "idle" => ENABLED CheckStart

\* a cycle found new records, send_email raised for the missing key, and the
\* process is back in the loop of run()
C11_Witness ==
  /\ pc = "idle"
  /\ outcome = "error"
  /\ FIRECRAWL_API_KEY /\ ~RESEND_API_KEY
  /\ send_calls = 1

\* C12: constructing JobAlert never fails on the state file: after it the
\* process stands in run() with the identifiers of a well-formed file, and
\* with the empty set when the file is absent or does not hold valid JSON.
C12_LoadNeverRaises ==
  /\ outcome # "load_failed"
  /\ outcome = "booted" =>
       /\ pc = "idle"
       /\ jobs_db.state = "ok" => seen_job_ids = { jobs_db.seen_job_ids[i] : i \in 1..Len(jobs_db.seen_job_ids) }
       /\ jobs_db.state \in {"absent", "corrupt"} => seen_job_ids = {}

\* a process started on a file that a failed write left without valid JSON
C12_Witness ==
  /\ outcome = "booted"
  /\ pc = "idle"
  /\ jobs_db.state = "corrupt"
  /\ seen_job_ids = {}

\* C13: every record the dedup loop examines, and every record of the list
\* given to send_email, has a title of at least 5 characters after trimming,
\* whichever mode fetched it.
C13_FetchedTitlesLongEnough ==
  pc \in {"dedup", "save"} =>
    /\ \A i \in 1..Len(jobs) : Len(Strip(jobs[i].title)) >= 5
    /\ \A i \in 1..Len(new_jobs) : Len(Strip(new_jobs[i].title)) >= 5

\* length of s without its leading and trailing spaces
TrimmedLen(s) ==
  LET at == { i \in 1..Len(s) : s[i] # " " }
  IN IF at = {} THEN 0
     ELSE (CHOOSE i \in at : \A k \in at : k <= i) - (CHOOSE i \in at : \A k \in at : i <= k) + 1

\* C14: whatever the content, the records parse_jobs_from_html returns have
\* titles of at least 5 characters after trimming, and no two of them have
\* the same title.
C14_ParserTitles ==
  pc = "parse_done" =>
    /\ \A i \in 1..Len(jobs) : TrimmedLen(jobs[i].title) >= 5
    /\ \A i, k \in 1..Len(jobs) : jobs[i].title = jobs[k].title => i = k

\* two anchors with the same title after trimming were parsed to one record
C14_Witness ==
  /\ pc = "parse_done"
  /\ html_content = Page(<<A_REL, A_ABS>>)
  /\ Len(jobs) = 1
  /\ jobs[1].title = T_REACT

\* whether an anchor explains a returned record: same title after trimming,
\* and the record's link is the anchor's href behind the site origin when the
\* href starts with "/", the href itself when it starts with "http"
ResolvedFrom(job, a) ==
  /\ MatchesJobHref(a.href)
  /\ job.title = Strip(a.text)
  /\ \/ StartsWith(a.href, <<"/">>) /\ job.link = SITE_ORIGIN \o a.href
     \/ StartsWith(a.href, PREFIX_HTTP) /\ job.link = a.href

\* C15: every record parse_jobs_from_html returns has a link that starts
\* with "http" and comes from a matching anchor of the content: a relative
\* href prefixed with https://it.pracuj.pl, or an href starting with "http"
\* unchanged; an anchor whose href is neither gives no record, and when no
\* anchor raises every matching anchor with a good title and href is
\* represented by a record of its title.
C15_ParserLinks ==
  pc = "parse_done" =>
    LET as == html_content.anchors IN
    /\ \A i \in 1..Len(jobs) :
         /\ StartsWith(jobs[i].link, PREFIX_HTTP)
         /\ \E k \in 1..Len(as) : ResolvedFrom(jobs[i], as[k])
    /\ html_content.fault = 0 =>
         \A k \in 1..Len(as) :
           ( /\ MatchesJobHref(as[k].href)
             /\ TrimmedLen(as[k].text) >= 5
             /\ StartsWith(as[k].href, <<"/">>) \/ StartsWith(as[k].href, PREFIX_HTTP) )
           => \E i \in 1..Len(jobs) : jobs[i].title = Strip(as[k].text)

\* an anchor with an href that is neither relative nor absolute was dropped,
\* and the relative href of the next anchor was put behind the site origin
C15_Witness ==
  /\ pc = "parse_done"
  /\ html_content = Page(<<A_BADHREF, A_REL>>)
  /\ Len(jobs) = 1
  /\ jobs[1].link = SITE_ORIGIN \o PAT_PRACA \o <<"1">>

\* C16: parse_jobs_from_html returns for every content; it returns the empty
\* list when the content has no offers-list container or the container has
\* no matching anchor, and when an anchor makes the loop raise it returns
\* what the anchors before that one gave.
C16_ParserNeverRaises ==
  pc = "parse_done" =>
    LET as == html_content.anchors
        k == html_content.fault
    IN /\ outcome = "returned"
       /\ ~html_content.container => jobs = <<>>
       /\ (\A i \in 1..Len(as) : ~MatchesJobHref(as[i].href)) => jobs = <<>>
       /\ (k \in 1..Len(as) /\ MatchesJobHref(as[k].href)) =>
            jobs = ParseLinks(JobLinks(Page(SubSeq(as, 1, k - 1))), <<>>, {})

\* the second anchor made the loop raise: the record of the first is returned
C16_Witness ==
  /\ pc = "parse_done"
  /\ outcome = "returned"
  /\ html_content = FaultyPage(<<A_REL, A_OFERTA>>, 2)
  /\ Len(jobs) = 1
  /\ jobs[1].title = T_REACT

StageOrder == <<"extract", "scrape", "parse", "dedup", "notify", "persist">>

\* position of a stage in StageOrder
StageRank(stage) == CHOOSE i \in 1..Len(StageOrder) : StageOrder[i] = stage

InStages(stage) == \E i \in 1..Len(stages) : stages[i] = stage

\* C17: the stages a cycle has entered follow the order extract, scrape,
\* parse, dedup, notify, persist; scrape is entered only after all four
\* extract requests gave no record; the parser only inside scrape; send_email
\* is called only after the dedup loop, with a non-empty new_jobs;
\* save_seen_jobs only after send_email was called.
C17_StageOrder ==
  /\ \A i \in 1..Len(stages) : \E k \in 1..Len(StageOrder) : stages[i] = StageOrder[k]
  /\ \A i, k \in 1..Len(stages) : i < k => StageRank(stages[i]) < StageRank(stages[k])
  /\ pc # "idle" => InStages("extract")
  /\ pc = "extract" => stages = <<"extract">>
  /\ pc = "scrape" => (InStages("scrape") /\ jobs = <<>>)
  /\ (InStages("scrape") /\ pc \in {"scrape", "fetched"}) =>
       /\ Len(calls) >= 4
       /\ \A k \in 1..4 : calls[k].mode = "extract" /\ ~calls[k].usable
  /\ (pc = "idle" /\ outcome = "nojobs") => InStages("scrape")
  /\ \A k \in 1..Len(calls) : calls[k].mode = "scrape" => InStages("scrape")
  /\ InStages("parse") => InStages("scrape")
  /\ InStages("dedup") <=> (pc \in {"dedup", "save"} \/ (pc = "idle" /\ outcome \in {"nonew", "notified"})
                            \/ InStages("notify"))
  /\ InStages("notify") <=> send_calls = 1
  /\ InStages("notify") => InStages("dedup") /\ (pc = "save" => new_jobs # <<>>)
  /\ InStages("persist") <=> save_calls = 1
  /\ InStages("persist") => InStages("notify")
  /\ pc = "save" => (InStages("notify") /\ ~InStages("persist"))

\* a cycle went through all six stages: extract gave nothing, a scraped page
\* was parsed, its records were new, the email was sent and the set saved
C17_Witness ==
  /\ pc = "idle"
  /\ outcome = "notified"
  /\ stages = StageOrder

\* number of requests of a mode among the requests posted so far
CallsOf(mode) == Cardinality({ k \in 1..Len(calls) : calls[k].mode = mode })

\* C18: a cycle posts at most 4 extract requests, at most 6 scrape requests
\* and at most 1 email request, no combination of endpoint and payload
\* twice; and every cycle that has started comes to its end.
C18_CycleTerminates ==
  /\ [](/\ CallsOf("extract") <= 4
        /\ CallsOf("scrape") <= 6
        /\ \A i, k \in 1..Len(calls) : CallKey(calls[i]) = CallKey(calls[k]) => i = k
        /\ send_calls <= 1
        /\ post_count <= 1)
  /\ (pc # "idle") ~> (pc = "idle")

\* all 4 extract and all 6 scrape requests were posted, the last answered
\* with a timeout or another network error, and the fetch returned nothing
C18_Witness ==
  /\ pc = "fetched"
  /\ CallsOf("extract") = 4
  /\ CallsOf("scrape") = 6
  /\ last_kind = "neterr"
  /\ jobs = <<>>

\* C19: when a cycle ends, every identifier it added to the seen set is the
\* identifier of a record of the list it passed to send_email, and the send
\* of that list was attempted: the request to the email API was posted.
C19_SeenOnlyWhenSendAttempted ==
  [][ (pc # "idle" /\ pc' = "idle" /\ seen_job_ids' # seen_at_start) =>
        /\ send_calls' = 1
        /\ (seen_job_ids' \ seen_at_start)
             \subseteq { get_job_id(hashseed, new_jobs[i]) : i \in 1..Len(new_jobs) }
        /\ post_count' = 1 ]_vars

\* C20: a cycle that starts with the state file holding the in-memory seen
\* set, and whose write of the file (if it makes one) succeeds, ends with the
\* state file holding the in-memory seen set, also when it ends in an error.
C20_FileEqualsMemory ==
  [][ ( /\ pc' = "idle"
        /\ outcome' \in {"error", "nojobs", "nonew", "notified"}
        /\ jobs_db.state # "corrupt"
        /\ load_seen_jobs(jobs_db) = seen_at_start
        /\ pc = "save" => jobs_db' = FileWith(SetToList(seen_job_ids)) )
      => ( /\ jobs_db'.state # "corrupt"
           /\ load_seen_jobs(jobs_db') = seen_job_ids' ) ]_vars

====
